---- MODULE Spec2Model ----
(***************************************************************************)
(* Model of plastron's `import` command (src/plastron/commands/import.py): *)
(* the per-row diff of a CSV row against the in-memory resource, the       *)
(* delete/insert graphs, the cancellation pass and the dispatch of the     *)
(* SPARQL update, together with the embedded-object index builder.         *)
(*                                                                         *)
(* Text (cells, index descriptors, attribute paths, URIs) is a sequence of *)
(* characters and a character is its code point (Python's ord), so that    *)
(* split/strip/regex are computed over the whole of Unicode:               *)
(*   "p[0]=/1" is <<112, 91, 48, 93, 61, 47, 49>>.                         *)
(* Code points used below:                                                 *)
(*   9 \t  10 \n  11 \x0b  12 \f  32 space  46 .  47 /  48-57 0-9         *)
(*   59 ;  61 =  91 [  93 ]  95 _  97 a  98 b  103 g  108 l  112 p         *)
(*   113 q  116 t  117 u  124 |  160 \xa0                                  *)
(***************************************************************************)
EXTENDS Integers, Sequences, FiniteSets, TLC

\* ------------------------------------------------------------------ bounds
MaxCellLen == 3
MaxRows == 2
MaxLimit == 2

\* ------------------------------------------------------- text primitives
None == "None"

\* the characters str.strip() removes (str.isspace)
Whitespace ==
    {9, 10, 11, 12, 13, 28, 29, 30, 31, 32, 133, 160,
     5760, 8192, 8193, 8194, 8195, 8196, 8197, 8198, 8199, 8200, 8201, 8202,
     8232, 8233, 8239, 8287, 12288}

\* \d of a str pattern: the decimal digits of Unicode, as closed intervals
\* of code points.  Every interval starts at a digit zero and its digits
\* follow in order.
DigitRanges == {
    <<48, 57>>, <<1632, 1641>>, <<1776, 1785>>, <<1984, 1993>>,
    <<2406, 2415>>, <<2534, 2543>>, <<2662, 2671>>, <<2790, 2799>>,
    <<2918, 2927>>, <<3046, 3055>>, <<3174, 3183>>, <<3302, 3311>>,
    <<3430, 3439>>, <<3558, 3567>>, <<3664, 3673>>, <<3792, 3801>>,
    <<3872, 3881>>, <<4160, 4169>>, <<4240, 4249>>, <<6112, 6121>>,
    <<6160, 6169>>, <<6470, 6479>>, <<6608, 6617>>, <<6784, 6793>>,
    <<6800, 6809>>, <<6992, 7001>>, <<7088, 7097>>, <<7232, 7241>>,
    <<7248, 7257>>, <<42528, 42537>>, <<43216, 43225>>, <<43264, 43273>>,
    <<43472, 43481>>, <<43504, 43513>>, <<43600, 43609>>, <<44016, 44025>>,
    <<65296, 65305>>, <<66720, 66729>>, <<68912, 68921>>, <<69734, 69743>>,
    <<69872, 69881>>, <<69942, 69951>>, <<70096, 70105>>, <<70384, 70393>>,
    <<70736, 70745>>, <<70864, 70873>>, <<71248, 71257>>, <<71360, 71369>>,
    <<71472, 71481>>, <<71904, 71913>>, <<72016, 72025>>, <<72784, 72793>>,
    <<73040, 73049>>, <<73120, 73129>>, <<92768, 92777>>, <<92864, 92873>>,
    <<93008, 93017>>, <<120782, 120831>>, <<123200, 123209>>, <<123632, 123641>>,
    <<125264, 125273>>, <<130032, 130041>>}

Digits == UNION {r[1]..r[2] : r \in DigitRanges}

\* [\w] of a str pattern: the alphanumeric characters of Unicode and "_",
\* as closed intervals of code points
WordRanges == {
    <<48, 57>>, <<65, 90>>, <<95, 95>>, <<97, 122>>,
    <<170, 170>>, <<178, 179>>, <<181, 181>>, <<185, 186>>,
    <<188, 190>>, <<192, 214>>, <<216, 246>>, <<248, 705>>,
    <<710, 721>>, <<736, 740>>, <<748, 748>>, <<750, 750>>,
    <<880, 884>>, <<886, 887>>, <<890, 893>>, <<895, 895>>,
    <<902, 902>>, <<904, 906>>, <<908, 908>>, <<910, 929>>,
    <<931, 1013>>, <<1015, 1153>>, <<1162, 1327>>, <<1329, 1366>>,
    <<1369, 1369>>, <<1376, 1416>>, <<1488, 1514>>, <<1519, 1522>>,
    <<1568, 1610>>, <<1632, 1641>>, <<1646, 1647>>, <<1649, 1747>>,
    <<1749, 1749>>, <<1765, 1766>>, <<1774, 1788>>, <<1791, 1791>>,
    <<1808, 1808>>, <<1810, 1839>>, <<1869, 1957>>, <<1969, 1969>>,
    <<1984, 2026>>, <<2036, 2037>>, <<2042, 2042>>, <<2048, 2069>>,
    <<2074, 2074>>, <<2084, 2084>>, <<2088, 2088>>, <<2112, 2136>>,
    <<2144, 2154>>, <<2160, 2183>>, <<2185, 2190>>, <<2208, 2249>>,
    <<2308, 2361>>, <<2365, 2365>>, <<2384, 2384>>, <<2392, 2401>>,
    <<2406, 2415>>, <<2417, 2432>>, <<2437, 2444>>, <<2447, 2448>>,
    <<2451, 2472>>, <<2474, 2480>>, <<2482, 2482>>, <<2486, 2489>>,
    <<2493, 2493>>, <<2510, 2510>>, <<2524, 2525>>, <<2527, 2529>>,
    <<2534, 2545>>, <<2548, 2553>>, <<2556, 2556>>, <<2565, 2570>>,
    <<2575, 2576>>, <<2579, 2600>>, <<2602, 2608>>, <<2610, 2611>>,
    <<2613, 2614>>, <<2616, 2617>>, <<2649, 2652>>, <<2654, 2654>>,
    <<2662, 2671>>, <<2674, 2676>>, <<2693, 2701>>, <<2703, 2705>>,
    <<2707, 2728>>, <<2730, 2736>>, <<2738, 2739>>, <<2741, 2745>>,
    <<2749, 2749>>, <<2768, 2768>>, <<2784, 2785>>, <<2790, 2799>>,
    <<2809, 2809>>, <<2821, 2828>>, <<2831, 2832>>, <<2835, 2856>>,
    <<2858, 2864>>, <<2866, 2867>>, <<2869, 2873>>, <<2877, 2877>>,
    <<2908, 2909>>, <<2911, 2913>>, <<2918, 2927>>, <<2929, 2935>>,
    <<2947, 2947>>, <<2949, 2954>>, <<2958, 2960>>, <<2962, 2965>>,
    <<2969, 2970>>, <<2972, 2972>>, <<2974, 2975>>, <<2979, 2980>>,
    <<2984, 2986>>, <<2990, 3001>>, <<3024, 3024>>, <<3046, 3058>>,
    <<3077, 3084>>, <<3086, 3088>>, <<3090, 3112>>, <<3114, 3129>>,
    <<3133, 3133>>, <<3160, 3162>>, <<3165, 3165>>, <<3168, 3169>>,
    <<3174, 3183>>, <<3192, 3198>>, <<3200, 3200>>, <<3205, 3212>>,
    <<3214, 3216>>, <<3218, 3240>>, <<3242, 3251>>, <<3253, 3257>>,
    <<3261, 3261>>, <<3293, 3294>>, <<3296, 3297>>, <<3302, 3311>>,
    <<3313, 3314>>, <<3332, 3340>>, <<3342, 3344>>, <<3346, 3386>>,
    <<3389, 3389>>, <<3406, 3406>>, <<3412, 3414>>, <<3416, 3425>>,
    <<3430, 3448>>, <<3450, 3455>>, <<3461, 3478>>, <<3482, 3505>>,
    <<3507, 3515>>, <<3517, 3517>>, <<3520, 3526>>, <<3558, 3567>>,
    <<3585, 3632>>, <<3634, 3635>>, <<3648, 3654>>, <<3664, 3673>>,
    <<3713, 3714>>, <<3716, 3716>>, <<3718, 3722>>, <<3724, 3747>>,
    <<3749, 3749>>, <<3751, 3760>>, <<3762, 3763>>, <<3773, 3773>>,
    <<3776, 3780>>, <<3782, 3782>>, <<3792, 3801>>, <<3804, 3807>>,
    <<3840, 3840>>, <<3872, 3891>>, <<3904, 3911>>, <<3913, 3948>>,
    <<3976, 3980>>, <<4096, 4138>>, <<4159, 4169>>, <<4176, 4181>>,
    <<4186, 4189>>, <<4193, 4193>>, <<4197, 4198>>, <<4206, 4208>>,
    <<4213, 4225>>, <<4238, 4238>>, <<4240, 4249>>, <<4256, 4293>>,
    <<4295, 4295>>, <<4301, 4301>>, <<4304, 4346>>, <<4348, 4680>>,
    <<4682, 4685>>, <<4688, 4694>>, <<4696, 4696>>, <<4698, 4701>>,
    <<4704, 4744>>, <<4746, 4749>>, <<4752, 4784>>, <<4786, 4789>>,
    <<4792, 4798>>, <<4800, 4800>>, <<4802, 4805>>, <<4808, 4822>>,
    <<4824, 4880>>, <<4882, 4885>>, <<4888, 4954>>, <<4969, 4988>>,
    <<4992, 5007>>, <<5024, 5109>>, <<5112, 5117>>, <<5121, 5740>>,
    <<5743, 5759>>, <<5761, 5786>>, <<5792, 5866>>, <<5870, 5880>>,
    <<5888, 5905>>, <<5919, 5937>>, <<5952, 5969>>, <<5984, 5996>>,
    <<5998, 6000>>, <<6016, 6067>>, <<6103, 6103>>, <<6108, 6108>>,
    <<6112, 6121>>, <<6128, 6137>>, <<6160, 6169>>, <<6176, 6264>>,
    <<6272, 6276>>, <<6279, 6312>>, <<6314, 6314>>, <<6320, 6389>>,
    <<6400, 6430>>, <<6470, 6509>>, <<6512, 6516>>, <<6528, 6571>>,
    <<6576, 6601>>, <<6608, 6618>>, <<6656, 6678>>, <<6688, 6740>>,
    <<6784, 6793>>, <<6800, 6809>>, <<6823, 6823>>, <<6917, 6963>>,
    <<6981, 6988>>, <<6992, 7001>>, <<7043, 7072>>, <<7086, 7141>>,
    <<7168, 7203>>, <<7232, 7241>>, <<7245, 7293>>, <<7296, 7304>>,
    <<7312, 7354>>, <<7357, 7359>>, <<7401, 7404>>, <<7406, 7411>>,
    <<7413, 7414>>, <<7418, 7418>>, <<7424, 7615>>, <<7680, 7957>>,
    <<7960, 7965>>, <<7968, 8005>>, <<8008, 8013>>, <<8016, 8023>>,
    <<8025, 8025>>, <<8027, 8027>>, <<8029, 8029>>, <<8031, 8061>>,
    <<8064, 8116>>, <<8118, 8124>>, <<8126, 8126>>, <<8130, 8132>>,
    <<8134, 8140>>, <<8144, 8147>>, <<8150, 8155>>, <<8160, 8172>>,
    <<8178, 8180>>, <<8182, 8188>>, <<8304, 8305>>, <<8308, 8313>>,
    <<8319, 8329>>, <<8336, 8348>>, <<8450, 8450>>, <<8455, 8455>>,
    <<8458, 8467>>, <<8469, 8469>>, <<8473, 8477>>, <<8484, 8484>>,
    <<8486, 8486>>, <<8488, 8488>>, <<8490, 8493>>, <<8495, 8505>>,
    <<8508, 8511>>, <<8517, 8521>>, <<8526, 8526>>, <<8528, 8585>>,
    <<9312, 9371>>, <<9450, 9471>>, <<10102, 10131>>, <<11264, 11492>>,
    <<11499, 11502>>, <<11506, 11507>>, <<11517, 11517>>, <<11520, 11557>>,
    <<11559, 11559>>, <<11565, 11565>>, <<11568, 11623>>, <<11631, 11631>>,
    <<11648, 11670>>, <<11680, 11686>>, <<11688, 11694>>, <<11696, 11702>>,
    <<11704, 11710>>, <<11712, 11718>>, <<11720, 11726>>, <<11728, 11734>>,
    <<11736, 11742>>, <<11823, 11823>>, <<12293, 12295>>, <<12321, 12329>>,
    <<12337, 12341>>, <<12344, 12348>>, <<12353, 12438>>, <<12445, 12447>>,
    <<12449, 12538>>, <<12540, 12543>>, <<12549, 12591>>, <<12593, 12686>>,
    <<12690, 12693>>, <<12704, 12735>>, <<12784, 12799>>, <<12832, 12841>>,
    <<12872, 12879>>, <<12881, 12895>>, <<12928, 12937>>, <<12977, 12991>>,
    <<13312, 19903>>, <<19968, 42124>>, <<42192, 42237>>, <<42240, 42508>>,
    <<42512, 42539>>, <<42560, 42606>>, <<42623, 42653>>, <<42656, 42735>>,
    <<42775, 42783>>, <<42786, 42888>>, <<42891, 42954>>, <<42960, 42961>>,
    <<42963, 42963>>, <<42965, 42969>>, <<42994, 43009>>, <<43011, 43013>>,
    <<43015, 43018>>, <<43020, 43042>>, <<43056, 43061>>, <<43072, 43123>>,
    <<43138, 43187>>, <<43216, 43225>>, <<43250, 43255>>, <<43259, 43259>>,
    <<43261, 43262>>, <<43264, 43301>>, <<43312, 43334>>, <<43360, 43388>>,
    <<43396, 43442>>, <<43471, 43481>>, <<43488, 43492>>, <<43494, 43518>>,
    <<43520, 43560>>, <<43584, 43586>>, <<43588, 43595>>, <<43600, 43609>>,
    <<43616, 43638>>, <<43642, 43642>>, <<43646, 43695>>, <<43697, 43697>>,
    <<43701, 43702>>, <<43705, 43709>>, <<43712, 43712>>, <<43714, 43714>>,
    <<43739, 43741>>, <<43744, 43754>>, <<43762, 43764>>, <<43777, 43782>>,
    <<43785, 43790>>, <<43793, 43798>>, <<43808, 43814>>, <<43816, 43822>>,
    <<43824, 43866>>, <<43868, 43881>>, <<43888, 44002>>, <<44016, 44025>>,
    <<44032, 55203>>, <<55216, 55238>>, <<55243, 55291>>, <<63744, 64109>>,
    <<64112, 64217>>, <<64256, 64262>>, <<64275, 64279>>, <<64285, 64285>>,
    <<64287, 64296>>, <<64298, 64310>>, <<64312, 64316>>, <<64318, 64318>>,
    <<64320, 64321>>, <<64323, 64324>>, <<64326, 64433>>, <<64467, 64829>>,
    <<64848, 64911>>, <<64914, 64967>>, <<65008, 65019>>, <<65136, 65140>>,
    <<65142, 65276>>, <<65296, 65305>>, <<65313, 65338>>, <<65345, 65370>>,
    <<65382, 65470>>, <<65474, 65479>>, <<65482, 65487>>, <<65490, 65495>>,
    <<65498, 65500>>, <<65536, 65547>>, <<65549, 65574>>, <<65576, 65594>>,
    <<65596, 65597>>, <<65599, 65613>>, <<65616, 65629>>, <<65664, 65786>>,
    <<65799, 65843>>, <<65856, 65912>>, <<65930, 65931>>, <<66176, 66204>>,
    <<66208, 66256>>, <<66273, 66299>>, <<66304, 66339>>, <<66349, 66378>>,
    <<66384, 66421>>, <<66432, 66461>>, <<66464, 66499>>, <<66504, 66511>>,
    <<66513, 66517>>, <<66560, 66717>>, <<66720, 66729>>, <<66736, 66771>>,
    <<66776, 66811>>, <<66816, 66855>>, <<66864, 66915>>, <<66928, 66938>>,
    <<66940, 66954>>, <<66956, 66962>>, <<66964, 66965>>, <<66967, 66977>>,
    <<66979, 66993>>, <<66995, 67001>>, <<67003, 67004>>, <<67072, 67382>>,
    <<67392, 67413>>, <<67424, 67431>>, <<67456, 67461>>, <<67463, 67504>>,
    <<67506, 67514>>, <<67584, 67589>>, <<67592, 67592>>, <<67594, 67637>>,
    <<67639, 67640>>, <<67644, 67644>>, <<67647, 67669>>, <<67672, 67702>>,
    <<67705, 67742>>, <<67751, 67759>>, <<67808, 67826>>, <<67828, 67829>>,
    <<67835, 67867>>, <<67872, 67897>>, <<67968, 68023>>, <<68028, 68047>>,
    <<68050, 68096>>, <<68112, 68115>>, <<68117, 68119>>, <<68121, 68149>>,
    <<68160, 68168>>, <<68192, 68222>>, <<68224, 68255>>, <<68288, 68295>>,
    <<68297, 68324>>, <<68331, 68335>>, <<68352, 68405>>, <<68416, 68437>>,
    <<68440, 68466>>, <<68472, 68497>>, <<68521, 68527>>, <<68608, 68680>>,
    <<68736, 68786>>, <<68800, 68850>>, <<68858, 68899>>, <<68912, 68921>>,
    <<69216, 69246>>, <<69248, 69289>>, <<69296, 69297>>, <<69376, 69415>>,
    <<69424, 69445>>, <<69457, 69460>>, <<69488, 69505>>, <<69552, 69579>>,
    <<69600, 69622>>, <<69635, 69687>>, <<69714, 69743>>, <<69745, 69746>>,
    <<69749, 69749>>, <<69763, 69807>>, <<69840, 69864>>, <<69872, 69881>>,
    <<69891, 69926>>, <<69942, 69951>>, <<69956, 69956>>, <<69959, 69959>>,
    <<69968, 70002>>, <<70006, 70006>>, <<70019, 70066>>, <<70081, 70084>>,
    <<70096, 70106>>, <<70108, 70108>>, <<70113, 70132>>, <<70144, 70161>>,
    <<70163, 70187>>, <<70272, 70278>>, <<70280, 70280>>, <<70282, 70285>>,
    <<70287, 70301>>, <<70303, 70312>>, <<70320, 70366>>, <<70384, 70393>>,
    <<70405, 70412>>, <<70415, 70416>>, <<70419, 70440>>, <<70442, 70448>>,
    <<70450, 70451>>, <<70453, 70457>>, <<70461, 70461>>, <<70480, 70480>>,
    <<70493, 70497>>, <<70656, 70708>>, <<70727, 70730>>, <<70736, 70745>>,
    <<70751, 70753>>, <<70784, 70831>>, <<70852, 70853>>, <<70855, 70855>>,
    <<70864, 70873>>, <<71040, 71086>>, <<71128, 71131>>, <<71168, 71215>>,
    <<71236, 71236>>, <<71248, 71257>>, <<71296, 71338>>, <<71352, 71352>>,
    <<71360, 71369>>, <<71424, 71450>>, <<71472, 71483>>, <<71488, 71494>>,
    <<71680, 71723>>, <<71840, 71922>>, <<71935, 71942>>, <<71945, 71945>>,
    <<71948, 71955>>, <<71957, 71958>>, <<71960, 71983>>, <<71999, 71999>>,
    <<72001, 72001>>, <<72016, 72025>>, <<72096, 72103>>, <<72106, 72144>>,
    <<72161, 72161>>, <<72163, 72163>>, <<72192, 72192>>, <<72203, 72242>>,
    <<72250, 72250>>, <<72272, 72272>>, <<72284, 72329>>, <<72349, 72349>>,
    <<72368, 72440>>, <<72704, 72712>>, <<72714, 72750>>, <<72768, 72768>>,
    <<72784, 72812>>, <<72818, 72847>>, <<72960, 72966>>, <<72968, 72969>>,
    <<72971, 73008>>, <<73030, 73030>>, <<73040, 73049>>, <<73056, 73061>>,
    <<73063, 73064>>, <<73066, 73097>>, <<73112, 73112>>, <<73120, 73129>>,
    <<73440, 73458>>, <<73648, 73648>>, <<73664, 73684>>, <<73728, 74649>>,
    <<74752, 74862>>, <<74880, 75075>>, <<77712, 77808>>, <<77824, 78894>>,
    <<82944, 83526>>, <<92160, 92728>>, <<92736, 92766>>, <<92768, 92777>>,
    <<92784, 92862>>, <<92864, 92873>>, <<92880, 92909>>, <<92928, 92975>>,
    <<92992, 92995>>, <<93008, 93017>>, <<93019, 93025>>, <<93027, 93047>>,
    <<93053, 93071>>, <<93760, 93846>>, <<93952, 94026>>, <<94032, 94032>>,
    <<94099, 94111>>, <<94176, 94177>>, <<94179, 94179>>, <<94208, 100343>>,
    <<100352, 101589>>, <<101632, 101640>>, <<110576, 110579>>, <<110581, 110587>>,
    <<110589, 110590>>, <<110592, 110882>>, <<110928, 110930>>, <<110948, 110951>>,
    <<110960, 111355>>, <<113664, 113770>>, <<113776, 113788>>, <<113792, 113800>>,
    <<113808, 113817>>, <<119520, 119539>>, <<119648, 119672>>, <<119808, 119892>>,
    <<119894, 119964>>, <<119966, 119967>>, <<119970, 119970>>, <<119973, 119974>>,
    <<119977, 119980>>, <<119982, 119993>>, <<119995, 119995>>, <<119997, 120003>>,
    <<120005, 120069>>, <<120071, 120074>>, <<120077, 120084>>, <<120086, 120092>>,
    <<120094, 120121>>, <<120123, 120126>>, <<120128, 120132>>, <<120134, 120134>>,
    <<120138, 120144>>, <<120146, 120485>>, <<120488, 120512>>, <<120514, 120538>>,
    <<120540, 120570>>, <<120572, 120596>>, <<120598, 120628>>, <<120630, 120654>>,
    <<120656, 120686>>, <<120688, 120712>>, <<120714, 120744>>, <<120746, 120770>>,
    <<120772, 120779>>, <<120782, 120831>>, <<122624, 122654>>, <<123136, 123180>>,
    <<123191, 123197>>, <<123200, 123209>>, <<123214, 123214>>, <<123536, 123565>>,
    <<123584, 123627>>, <<123632, 123641>>, <<124896, 124902>>, <<124904, 124907>>,
    <<124909, 124910>>, <<124912, 124926>>, <<124928, 125124>>, <<125127, 125135>>,
    <<125184, 125251>>, <<125259, 125259>>, <<125264, 125273>>, <<126065, 126123>>,
    <<126125, 126127>>, <<126129, 126132>>, <<126209, 126253>>, <<126255, 126269>>,
    <<126464, 126467>>, <<126469, 126495>>, <<126497, 126498>>, <<126500, 126500>>,
    <<126503, 126503>>, <<126505, 126514>>, <<126516, 126519>>, <<126521, 126521>>,
    <<126523, 126523>>, <<126530, 126530>>, <<126535, 126535>>, <<126537, 126537>>,
    <<126539, 126539>>, <<126541, 126543>>, <<126545, 126546>>, <<126548, 126548>>,
    <<126551, 126551>>, <<126553, 126553>>, <<126555, 126555>>, <<126557, 126557>>,
    <<126559, 126559>>, <<126561, 126562>>, <<126564, 126564>>, <<126567, 126570>>,
    <<126572, 126578>>, <<126580, 126583>>, <<126585, 126588>>, <<126590, 126590>>,
    <<126592, 126601>>, <<126603, 126619>>, <<126625, 126627>>, <<126629, 126633>>,
    <<126635, 126651>>, <<127232, 127244>>, <<130032, 130041>>, <<131072, 173791>>,
    <<173824, 177976>>, <<177984, 178205>>, <<178208, 183969>>, <<183984, 191456>>,
    <<194560, 195101>>, <<196608, 201546>>}

WordChars == UNION {r[1]..r[2] : r \in WordRanges}

Range(s) == {s[i] : i \in 1..Len(s)}

Min(S) == CHOOSE x \in S : \A y \in S : x <= y
Max(S) == CHOOSE x \in S : \A y \in S : x >= y

\* str.split(sep, maxsplit) for a one-character separator; maxsplit = -1
\* means no limit.  The result always has at least one element.
RECURSIVE SplitMax(_, _, _)
SplitMax(s, sep, maxsplit) ==
    LET hits == {i \in 1..Len(s) : s[i] = sep}
    IN  IF hits = {} \/ maxsplit = 0
        THEN <<s>>
        ELSE LET i == Min(hits)
             IN  <<SubSeq(s, 1, i - 1)>> \o
                 SplitMax(SubSeq(s, i + 1, Len(s)), sep,
                          IF maxsplit < 0 THEN maxsplit ELSE maxsplit - 1)

Split(s, sep) == SplitMax(s, sep, -1)

\* len(v.strip()) > 0
NonBlank(v) == \E i \in 1..Len(v) : v[i] \notin Whitespace

\* [v for v in row[header].split('|') if len(v.strip()) > 0]
new_values(cell) == SelectSeq(Split(cell, 124), NonBlank)

\* for every position of s, whether its character is in the class cls
ClassMask(s, cls) == [i \in 1..Len(s) |-> s[i] \in cls]

\* end of the maximal run of positions the mask holds at that starts at i
RunEnd(mask, i) ==
    Max({j \in i..Len(mask) : \A k \in i..j : mask[k]})

\* the value int() gives a decimal digit of any script
DigitVal(d) ==
    LET r == CHOOSE r \in DigitRanges : r[1] <= d /\ d <= r[2]
    IN  (d - r[1]) % 10

\* the longest digit string int() converts: a longer one raises ValueError
\* (sys.get_int_max_str_digits() of the interpreter, Python 3.11 and later)
int_max_str_digits == 4300

\* int(m[2]) of a digit string within that limit
RECURSIVE ParseInt(_)
ParseInt(ds) ==
    IF ds = <<>> THEN 0
    ELSE 10 * ParseInt(SubSeq(ds, 1, Len(ds) - 1)) + DigitVal(ds[Len(ds)])

\* where a match of ([\w]+)\[(\d+)\] can start at position i of key, w and
\* d being the masks of [\w] and \d over key: the greedy groups must end
\* right before "[" (91) and "]" (93), which are in neither class, so each
\* group is the maximal run.
MatchesAt(key, w, d, i) ==
    /\ w[i]
    /\ RunEnd(w, i) + 2 <= Len(key)
    /\ key[RunEnd(w, i) + 1] = 91
    /\ d[RunEnd(w, i) + 2]
    /\ RunEnd(d, RunEnd(w, i) + 2) + 1 <= Len(key)
    /\ key[RunEnd(d, RunEnd(w, i) + 2) + 1] = 93

\* the match that starts at position i of key: m[1] and m[2]
MatchAt(key, w, d, i) ==
    [matched |-> TRUE,
     attr   |-> SubSeq(key, i, RunEnd(w, i)),
     digits |-> SubSeq(key, RunEnd(w, i) + 2, RunEnd(d, RunEnd(w, i) + 2))]

\* the leftmost match over the masks w and d, or None
search(key, w, d) ==
    IF \A i \in 1..Len(key) : ~MatchesAt(key, w, d, i)
    THEN [matched |-> FALSE, attr |-> <<>>, digits |-> <<>>]
    ELSE MatchAt(key, w, d,
                 Min({i \in 1..Len(key) : MatchesAt(key, w, d, i)}))

\* re.search(pattern, key)
re_search(key) ==
    search(key, ClassMask(key, WordChars), ClassMask(key, Digits))

\* ------------------------------------------------ the model class in use
\* A model class with one direct data property (attribute t, column Title),
\* one embedded data property (attribute p.l, column Label: the l of every
\* object embedded under p) and a second embedded attribute g that no
\* column maps.
HEADER_MAP == (<<116>> :> "Title") @@ (<<112, 46, 108>> :> "Label")

\* {header: attrs for attrs, header in model_class.HEADER_MAP.items()}
property_attrs ==
    [header \in {HEADER_MAP[a] : a \in DOMAIN HEADER_MAP} |->
        CHOOSE a \in DOMAIN HEADER_MAP : HEADER_MAP[a] = header]

\* iteration order of property_attrs.items()
HeaderOrder == <<"Title", "Label">>

\* prop.uri of the property an attribute path resolves to
prop_uri(attrs) ==
    IF attrs = <<116>> THEN "dcterms:title" ELSE "rdfs:label"

\* in-memory values: an rdflib Literal as read from the graph, or the plain
\* str the import assigns
Literal(s) == [py |-> "Literal", s |-> s]
PyStr(s) == [py |-> "str", s |-> s]

\* str(v)
str(v) == v.s

\* prop.get_term(value): the RDF term of a data property
get_term(attrs, value) == [term |-> "Literal", lex |-> value]

EmptyIndex == [a \in {} |-> a]

\* ------------------------------------------------------ build_lookup_index
\* the None csv.DictReader gives a column the data line has no field for:
\* no text, written as a sequence no text equals (-1 is no code point)
NoneCell == <<-1>>

\* attributes every resource has whose value cannot be subscripted: its
\* uri (a str), its methods and what every Python object carries
ObjectAttrs ==
    {<<117, 114, 105>>,                                  \* uri
     <<112, 97, 116, 99, 104>>,                          \* patch
     <<102, 114, 111, 109, 95, 103, 114, 97, 112, 104>>, \* from_graph
     <<95, 95, 99, 108, 97, 115, 115, 95, 95>>,          \* __class__
     <<95, 95, 100, 101, 108, 97, 116, 116, 114, 95, 95>>,   \* __delattr__
     <<95, 95, 100, 105, 114, 95, 95>>,                  \* __dir__
     <<95, 95, 100, 111, 99, 95, 95>>,                   \* __doc__
     <<95, 95, 101, 113, 95, 95>>,                       \* __eq__
     <<95, 95, 102, 111, 114, 109, 97, 116, 95, 95>>,    \* __format__
     <<95, 95, 103, 101, 95, 95>>,                       \* __ge__
     <<95, 95, 103, 101, 116, 97, 116, 116, 114, 105, 98, 117, 116, 101,
       95, 95>>,                                         \* __getattribute__
     <<95, 95, 103, 101, 116, 115, 116, 97, 116, 101, 95, 95>>,  \* __getstate__
     <<95, 95, 103, 116, 95, 95>>,                       \* __gt__
     <<95, 95, 104, 97, 115, 104, 95, 95>>,              \* __hash__
     <<95, 95, 105, 110, 105, 116, 95, 95>>,             \* __init__
     <<95, 95, 105, 110, 105, 116, 95, 115, 117, 98, 99, 108, 97, 115, 115,
       95, 95>>,                                         \* __init_subclass__
     <<95, 95, 108, 101, 95, 95>>,                       \* __le__
     <<95, 95, 108, 116, 95, 95>>,                       \* __lt__
     <<95, 95, 109, 111, 100, 117, 108, 101, 95, 95>>,   \* __module__
     <<95, 95, 110, 101, 95, 95>>,                       \* __ne__
     <<95, 95, 110, 101, 119, 95, 95>>,                  \* __new__
     <<95, 95, 114, 101, 100, 117, 99, 101, 95, 95>>,    \* __reduce__
     <<95, 95, 114, 101, 100, 117, 99, 101, 95, 101, 120, 95, 95>>,
                                                         \* __reduce_ex__
     <<95, 95, 114, 101, 112, 114, 95, 95>>,             \* __repr__
     <<95, 95, 115, 101, 116, 97, 116, 116, 114, 95, 95>>,   \* __setattr__
     <<95, 95, 115, 105, 122, 101, 111, 102, 95, 95>>,   \* __sizeof__
     <<95, 95, 115, 116, 114, 95, 95>>,                  \* __str__
     <<95, 95, 115, 117, 98, 99, 108, 97, 115, 115, 104, 111, 111, 107,
       95, 95>>,                                         \* __subclasshook__
     <<95, 95, 119, 101, 97, 107, 114, 101, 102, 95, 95>>}   \* __weakref__

\* attributes every resource has whose value is a dict: subscripting it
\* with the URI of an embedded object raises KeyError
MappingAttrs ==
    {<<72, 69, 65, 68, 69, 82, 95, 77, 65, 80>>,         \* HEADER_MAP
     <<95, 95, 100, 105, 99, 116, 95, 95>>}              \* __dict__

\* the attributes of the resource that are not embedded-object properties
\* and cannot be subscripted: getattr succeeds and subscripting the result
\* raises TypeError
PlainAttrs(it) == ObjectAttrs \cup DOMAIN it.props

\* index[attr][i] = getattr(item, attr)[URIRef(item.uri + uriref)], entry
\* by entry; the embedded object is held by reference (its URI).
RECURSIVE build_entries(_, _, _, _)
build_entries(it, entries, k, idx) ==
    IF k > Len(entries) THEN [err |-> None, index |-> idx]
    ELSE
      LET parts == Split(entries[k], 61)
      IN  IF Len(parts) # 2 THEN [err |-> "ValueError", index |-> idx]
          ELSE
            LET m == re_search(parts[1])
                ref == it.uri \o parts[2]
            IN  IF ~m.matched THEN [err |-> "TypeError", index |-> idx]
                ELSE IF Len(m.digits) > int_max_str_digits
                THEN [err |-> "ValueError", index |-> idx]
                ELSE IF m.attr \in PlainAttrs(it)
                THEN [err |-> "TypeError", index |-> idx]
                ELSE IF m.attr \in MappingAttrs
                THEN [err |-> "KeyError", index |-> idx]
                ELSE IF m.attr \notin DOMAIN it.emb
                THEN [err |-> "AttributeError", index |-> idx]
                ELSE IF ref \notin DOMAIN it.emb[m.attr]
                THEN [err |-> "KeyError", index |-> idx]
                ELSE
                  LET inner == IF m.attr \in DOMAIN idx
                               THEN idx[m.attr] ELSE EmptyIndex
                      idx2 == [a \in DOMAIN idx \cup {m.attr} |->
                                 IF a = m.attr
                                 THEN (ParseInt(m.digits) :> ref) @@ inner
                                 ELSE idx[a]]
                  IN  build_entries(it, entries, k + 1, idx2)

build_lookup_index(it, index_string) ==
    IF index_string = NoneCell
    THEN [err |-> "AttributeError", index |-> EmptyIndex]
    ELSE build_entries(it, Split(index_string, 59), 1, EmptyIndex)

\* --------------------------------------------------------- the row's diff
Triple(s, p, o) == <<s, p, o>>

\* direct_diff with every new value inserted, not only the ones that are new
direct_diff_inserts_all(st, attrs, cell) ==
    LET prop == st.item.props[attrs]
        old_values == [i \in 1..Len(prop) |-> str(prop[i])]
        new == new_values(cell)
    IN  [st EXCEPT
           !.del = @ \cup {Triple(st.item.uri, prop_uri(attrs), get_term(attrs, v)) :
                             v \in Range(old_values) \ Range(new)},
           !.ins = @ \cup {Triple(st.item.uri, prop_uri(attrs), get_term(attrs, v)) :
                             v \in Range(new)},
           !.item.props[attrs] = [i \in 1..Len(new) |-> PyStr(new[i])]]

\* direct_diff without the in-memory update of lines 100-101
direct_diff_no_assign(st, attrs, cell) ==
    LET prop == st.item.props[attrs]
        old_values == [i \in 1..Len(prop) |-> str(prop[i])]
        new == new_values(cell)
    IN  [st EXCEPT
           !.del = @ \cup {Triple(st.item.uri, prop_uri(attrs), get_term(attrs, v)) :
                             v \in Range(old_values) \ Range(new)},
           !.ins = @ \cup {Triple(st.item.uri, prop_uri(attrs), get_term(attrs, v)) :
                             v \in Range(new) \ Range(old_values)}]

\* simple, non-embedded values (lines 88-101)
direct_diff(st, attrs, cell) ==
    LET prop == st.item.props[attrs]
        old_values == [i \in 1..Len(prop) |-> str(prop[i])]
        new == new_values(cell)
        old_values_set == Range(old_values)
        new_values_set == Range(new)
    IN  [st EXCEPT
           !.del = @ \cup {Triple(st.item.uri, prop_uri(attrs), get_term(attrs, v)) :
                             v \in old_values_set \ new_values_set},
           !.ins = @ \cup {Triple(st.item.uri, prop_uri(attrs), get_term(attrs, v)) :
                             v \in new_values_set \ old_values_set},
           !.item.props[attrs] = [i \in 1..Len(new) |-> PyStr(new[i])]]

\* embedded_step without the setattr of line 117
embedded_step_no_setattr(st, attrs, first_attr, next_attr, obj, old_value, new_value) ==
    IF new_value # old_value
    THEN [st EXCEPT
            !.del = @ \cup {Triple(obj, prop_uri(attrs),
                                   get_term(attrs, old_value))},
            !.ins = @ \cup {Triple(obj, prop_uri(attrs),
                                   get_term(attrs, new_value))}]
    ELSE st

\* embedded_step with the parent resource as the subject of both statements
embedded_step_parent_subject(st, attrs, first_attr, next_attr, obj, old_value, new_value) ==
    IF new_value # old_value
    THEN [st EXCEPT
            !.item.emb[first_attr][obj][next_attr] = <<PyStr(new_value)>>,
            !.del = @ \cup {Triple(st.item.uri, prop_uri(attrs),
                                   get_term(attrs, old_value))},
            !.ins = @ \cup {Triple(st.item.uri, prop_uri(attrs),
                                   get_term(attrs, new_value))}]
    ELSE st

\* lines 116-119: one position of the embedded column
embedded_step(st, attrs, first_attr, next_attr, obj, old_value, new_value) ==
    IF new_value # old_value
    THEN [st EXCEPT
            !.item.emb[first_attr][obj][next_attr] = <<PyStr(new_value)>>,
            !.del = @ \cup {Triple(obj, prop_uri(attrs),
                                   get_term(attrs, old_value))},
            !.ins = @ \cup {Triple(obj, prop_uri(attrs),
                                   get_term(attrs, new_value))}]
    ELSE st

\* for i, new_value in enumerate(new_values) (lines 111-119); i is 0-based
RECURSIVE embedded_loop(_, _, _, _, _, _)
embedded_loop(st, attrs, first_attr, next_attr, new, i) ==
    IF i >= Len(new) THEN st
    ELSE IF i \notin DOMAIN st.index[first_attr]
    THEN [st EXCEPT !.err = "KeyError"]
    ELSE
      LET obj == st.index[first_attr][i]
          values == st.item.emb[first_attr][obj][next_attr]
      IN  IF values = <<>> THEN [st EXCEPT !.err = "IndexError"]
          ELSE embedded_loop(
                   embedded_step(st, attrs, first_attr, next_attr, obj,
                                 str(values[1]), new[i + 1]),
                   attrs, first_attr, next_attr, new, i + 1)

\* complex, embedded values (lines 103-119)
embedded_diff(st, attrs, cell) ==
    LET parts == SplitMax(attrs, 46, 2)
    IN  IF Len(parts) # 2 THEN [st EXCEPT !.err = "ValueError"]
        ELSE IF parts[1] \in DOMAIN st.index
        THEN embedded_loop(st, attrs, parts[1], parts[2], new_values(cell), 0)
        ELSE st

\* one pass of the loop over property_attrs.items() (lines 82-119)
diff_property(st, header, r) ==
    LET attrs == property_attrs[header]
    IN  IF r[header] = NoneCell THEN [st EXCEPT !.err = "AttributeError"]
        ELSE IF 46 \notin Range(attrs)
        THEN direct_diff(st, attrs, r[header])
        ELSE embedded_diff(st, attrs, r[header])

RECURSIVE diff_headers(_, _, _)
diff_headers(st, r, k) ==
    IF k > Len(HeaderOrder) \/ st.err # None THEN st
    ELSE diff_headers(diff_property(st, HeaderOrder[k], r), r, k + 1)

\* lines 80-119: both graphs start empty for the row
diff_row(it, idx, r) ==
    diff_headers([item |-> it, index |-> idx, del |-> {}, ins |-> {},
                  err |-> None], r, 1)

\* lines 121-125: remove statements that are both deleted and re-inserted
\* (rdflib iterates over a snapshot of delete_graph, so every statement of
\* the graph is visited once)
cancel_deletes(del, ins) == del \ (del \cap ins)

\* cancel_inserts with the statement removed from the delete graph only
cancel_inserts_kept(del, ins) == ins

cancel_inserts(del, ins) == ins \ (del \cap ins)

\* build_sparql_update: both graphs as N-Triples inside one expression
build_sparql_update(del, ins) ==
    <<"DELETE {", del, "} INSERT {", ins, "} WHERE {}">>

\* ------------------------------------------------------------------ inputs
CellChars == {97, 98, 32, 124}
Cells == UNION {[1..n -> CellChars] : n \in 0..MaxCellLen}

\* index descriptors (the INDEX column)
D_empty   == <<>>
\* p[0]=/1;p[1]=/2
D_two     == <<112,91,48,93,61,47,49,59,112,91,49,93,61,47,50>>
\* p[0]=/1;p[1]=/1
D_alias   == <<112,91,48,93,61,47,49,59,112,91,49,93,61,47,49>>
\* p[0]=/1
D_one     == <<112,91,48,93,61,47,49>>
\* g[0]=/9
D_other   == <<103,91,48,93,61,47,57>>
\* p[U+0660]=/1;p[U+0661]=/2 (Arabic-Indic 0 and 1)
D_arabic  == <<112,91,1632,93,61,47,49,59,112,91,1633,93,61,47,50>>
\* p[U+FF11]=/2;p[U+0966]=/1 (fullwidth 1, Devanagari 0)
D_scripts == <<112,91,65297,93,61,47,50,59,112,91,2406,93,61,47,49>>
\* p[U+06F3]=/1 (Extended Arabic-Indic 3)
D_three   == <<112,91,1779,93,61,47,49>>
\* p0=/1
D_nomatch == <<112,48,61,47,49>>
\* p[0]
D_noeq    == <<112,91,48,93>>
\* p[0]=/3
D_missing == <<112,91,48,93,61,47,51>>
\* q[0]=/1
D_noattr  == <<113,91,48,93,61,47,49>>
\* uri[0]=/1
D_uri     == <<117,114,105,91,48,93,61,47,49>>
\* patch[0]=/1
D_method  == <<112,97,116,99,104,91,48,93,61,47,49>>
\* __class__[0]=/1
D_class   == <<95,95,99,108,97,115,115,95,95,91,48,93,61,47,49>>
\* HEADER_MAP[0]=/1
D_mapping == <<72,69,65,68,69,82,95,77,65,80,91,48,93,61,47,49>>
\* U+00E9[0]=/1 (e acute)
D_unicode == <<233,91,48,93,61,47,49>>
\* U+00E0 p[0]=/1 (a grave before the p)
D_prefix  == <<224,112,91,48,93,61,47,49>>
\* U+4E2D[0]=/1 (a CJK ideograph)
D_cjk     == <<20013,91,48,93,61,47,49>>
\* p[U+00B2]=/1 (superscript two: a word character that is no digit)
D_super   == <<112,91,178,93,61,47,49>>

\* descriptors build_lookup_index returns an index for
IndexedDescriptors == {D_two, D_alias, D_one, D_other, D_arabic, D_scripts,
                       D_three}

\* descriptors build_lookup_index raises for
FailingDescriptors == {D_empty, D_nomatch, D_noeq, D_missing, D_noattr,
                       D_uri, D_method, D_class, D_mapping, D_unicode,
                       D_prefix, D_cjk, D_super}

Descriptors == IndexedDescriptors \cup FailingDescriptors

LabelCells == {<<>>, <<97>>, <<98>>, <<97,124,98>>, <<98,124,97>>,
               <<97,124,97>>, <<98,124,12>>}

\* cells with blank entries other than spaces: a|\f|b, a|\n, \x0b\t|b,
\* \xa0.  The file is read with universal newlines, so a carriage return
\* inside a quoted field arrives as \n.
BlankEntryCells == {<<97,124,12,124,98>>, <<97,124,10>>,
                    <<11,9,124,98>>, <<160>>}

ItemURIs == {<<117>>}

\* rows of the import file, as csv.DictReader yields them
Rows ==
    {[URI |-> u, INDEX |-> D_two, Title |-> c, Label |-> <<97>>] :
        u \in ItemURIs, c \in Cells \cup BlankEntryCells}
    \cup
    {[URI |-> u, INDEX |-> d, Title |-> c, Label |-> l] :
        u \in ItemURIs, d \in IndexedDescriptors,
        c \in {<<97>>, <<97,124,98>>}, l \in LabelCells}
    \cup
    {[URI |-> u, INDEX |-> d, Title |-> <<97>>, Label |-> <<97>>] :
        u \in ItemURIs, d \in FailingDescriptors}
    \cup
    \* data lines shorter than the header URI,INDEX,Title,Label
    {[URI |-> u, INDEX |-> D_two, Title |-> <<98>>, Label |-> NoneCell] :
        u \in ItemURIs}
    \cup
    {[URI |-> u, INDEX |-> D_two, Title |-> NoneCell, Label |-> NoneCell] :
        u \in ItemURIs}
    \cup
    {[URI |-> u, INDEX |-> NoneCell, Title |-> NoneCell, Label |-> NoneCell] :
        u \in ItemURIs}

Values == {<<97>>, <<98>>}
OldTitles == {<<>>, <<Literal(<<97>>)>>, <<Literal(<<98>>)>>,
              <<Literal(<<97>>), Literal(<<98>>)>>}

\* model_class.from_graph(repo.get_graph(uri, False), uri): what the
\* repository may hold for the resource
Items(u) ==
    {[uri   |-> u,
      props |-> (<<116>> :> t),
      emb   |-> [a \in {<<112>>, <<103>>} |->
                   IF a = <<112>>
                   THEN [o \in {u \o <<47, 49>>, u \o <<47, 50>>} |->
                           (<<108>> :> <<Literal(IF o = u \o <<47, 49>>
                                                 THEN l1 ELSE l2)>>)]
                   ELSE [o \in {u \o <<47, 57>>} |->
                           (<<108>> :> <<Literal(<<97>>)>>)]]] :
        t \in OldTitles, l1 \in Values, l2 \in Values}

Limits == {[given |-> FALSE, n |-> 0]} \cup
          {[given |-> TRUE, n |-> k] : k \in 0..MaxLimit}

\* ------------------------------------------------------------------- state
VARIABLES
    pc,              \* where Command.__call__ is
    limit,           \* args.limit
    nrows,           \* number of data rows of the file
    row_number,      \* enumerate(csv_file, 1)
    row,             \* the row just read
    item,            \* the in-memory resource of the row
    index,           \* build_lookup_index's result for the row
    delete_graph,
    insert_graph,
    sparql_update,   \* the update text of the row, once built
    row_count,
    updated_count,
    unchanged_count,
    fetched,         \* row numbers repo.get_graph was called for, in order
    patched,         \* row numbers item.patch was called for, in order
    error            \* the exception that left __call__, if any

vars == <<pc, limit, nrows, row_number, row, item, index, delete_graph,
          insert_graph, sparql_update, row_count, updated_count,
          unchanged_count, fetched, patched, error>>

Unbound == [unbound |-> TRUE]

Init ==
    /\ pc = "loop"
    /\ limit \in Limits
    /\ nrows \in 0..MaxRows
    /\ row_number = 0
    /\ row = Unbound
    /\ item = Unbound
    /\ index = EmptyIndex
    /\ delete_graph = {}
    /\ insert_graph = {}
    /\ sparql_update = <<>>
    /\ row_count = 0
    /\ updated_count = 0
    /\ unchanged_count = 0
    /\ fetched = <<>>
    /\ patched = <<>>
    /\ error = None

counters == <<row_count, updated_count, unchanged_count>>

\* Nothing reads a row's locals once its iteration has ended: the resource
\* is discarded and every name is rebound by the next iteration.
RowLocalsUnbound ==
    /\ index' = EmptyIndex
    /\ delete_graph' = {}
    /\ insert_graph' = {}
    /\ sparql_update' = <<>>

IterationEnds ==
    /\ row' = Unbound
    /\ item' = Unbound
    /\ RowLocalsUnbound

\* line 68: the file is exhausted; lines 141-142 report the counts
EndOfFile ==
    /\ pc = "loop"
    /\ row_number = nrows
    /\ pc' = "done"
    /\ UNCHANGED <<limit, nrows, row_number, row, item, index, delete_graph,
                   insert_graph, sparql_update, counters, fetched, patched,
                   error>>

\* lines 68-71: the next row is beyond the limit
StopAtLimit ==
    /\ pc = "loop"
    /\ row_number < nrows
    /\ limit.given /\ row_number + 1 > limit.n
    /\ \E r \in Rows : row' = r
    /\ row_number' = row_number + 1
    /\ pc' = "done"
    /\ UNCHANGED <<limit, nrows, item, index, delete_graph, insert_graph,
                   sparql_update, counters, fetched, patched, error>>

\* lines 68-76: the next row is read and its resource fetched
Fetch ==
    /\ pc = "loop"
    /\ row_number < nrows
    /\ ~(limit.given /\ row_number + 1 > limit.n)
    /\ \E r \in Rows :
          /\ row' = r
          /\ \E it \in Items(r.URI) : item' = it
    /\ row_number' = row_number + 1
    /\ fetched' = Append(fetched, row_number + 1)
    /\ pc' = "fetched"
    /\ UNCHANGED <<limit, nrows, index, delete_graph, insert_graph,
                   sparql_update, counters, patched, error>>

\* line 76: repo.get_graph raises
FetchFails ==
    /\ pc = "loop"
    /\ row_number < nrows
    /\ ~(limit.given /\ row_number + 1 > limit.n)
    /\ \E r \in Rows : row' = r
    /\ row_number' = row_number + 1
    /\ fetched' = Append(fetched, row_number + 1)
    /\ pc' = "aborted"
    /\ error' = "RESTAPIException"
    /\ UNCHANGED <<limit, nrows, item, index, delete_graph, insert_graph,
                   sparql_update, counters, patched>>

\* line 78
BuildIndex ==
    /\ pc = "fetched"
    /\ LET res == build_lookup_index(item, row.INDEX)
       IN  IF res.err = None
           THEN /\ index' = res.index
                /\ pc' = "indexed"
                /\ error' = error
           ELSE /\ index' = index
                /\ pc' = "aborted"
                /\ error' = res.err
    /\ UNCHANGED <<limit, nrows, row_number, row, item, delete_graph,
                   insert_graph, sparql_update, counters, fetched, patched>>

\* lines 80-119: the loop over the mapped properties
DiffProperties ==
    /\ pc = "indexed"
    /\ LET st == diff_row(item, index, row)
       IN  /\ item' = st.item
           /\ delete_graph' = st.del
           /\ insert_graph' = st.ins
           /\ IF st.err = None
              THEN pc' = "accumulated" /\ error' = error
              ELSE pc' = "aborted" /\ error' = st.err
    /\ UNCHANGED <<limit, nrows, row_number, row, index, sparql_update,
                   counters, fetched, patched>>

\* lines 121-127: the cancellation pass, then row_count += 1
Cancel ==
    /\ pc = "accumulated"
    /\ delete_graph' = cancel_deletes(delete_graph, insert_graph)
    /\ insert_graph' = cancel_inserts(delete_graph, insert_graph)
    /\ row_count' = row_count + 1
    /\ pc' = "diffed"
    /\ UNCHANGED <<limit, nrows, row_number, row, item, index, sparql_update,
                   updated_count, unchanged_count, fetched, patched, error>>

\* has_changes looking at the delete graph only
has_changes_deletes_only(del, ins) == Cardinality(del) > 0

\* line 129
has_changes(del, ins) == Cardinality(del) > 0 \/ Cardinality(ins) > 0

\* lines 129-133: the update is built and handed to item.patch
SubmitPatch ==
    /\ pc = "diffed"
    /\ has_changes(delete_graph, insert_graph)
    /\ sparql_update' = build_sparql_update(delete_graph, insert_graph)
    /\ patched' = Append(patched, row_number)
    /\ pc' = "patching"
    /\ UNCHANGED <<limit, nrows, row_number, row, item, index, delete_graph,
                   insert_graph, counters, fetched, error>>

\* lines 133-134: item.patch returns
PatchReturns ==
    /\ pc = "patching"
    /\ updated_count' = updated_count + 1
    /\ IterationEnds
    /\ pc' = "loop"
    /\ UNCHANGED <<limit, nrows, row_number, row_count, unchanged_count,
                   fetched, patched, error>>

\* line 133: item.patch raises
PatchFails ==
    /\ pc = "patching"
    /\ pc' = "aborted"
    /\ error' = "RESTAPIException"
    /\ UNCHANGED <<limit, nrows, row_number, row, item, index, delete_graph,
                   insert_graph, sparql_update, counters, fetched, patched>>

\* NoChanges counting the row a second time
NoChanges_counts_row ==
    /\ pc = "diffed"
    /\ ~has_changes(delete_graph, insert_graph)
    /\ unchanged_count' = unchanged_count + 1
    /\ row_count' = row_count + 1
    /\ IterationEnds
    /\ pc' = "loop"
    /\ UNCHANGED <<limit, nrows, row_number, updated_count,
                   fetched, patched, error>>

\* lines 135-137
NoChanges ==
    /\ pc = "diffed"
    /\ ~has_changes(delete_graph, insert_graph)
    /\ unchanged_count' = unchanged_count + 1
    /\ IterationEnds
    /\ pc' = "loop"
    /\ UNCHANGED <<limit, nrows, row_number, row_count, updated_count,
                   fetched, patched, error>>

Next ==
    \/ EndOfFile
    \/ StopAtLimit
    \/ Fetch
    \/ FetchFails
    \/ BuildIndex
    \/ DiffProperties
    \/ Cancel
    \/ SubmitPatch
    \/ PatchReturns
    \/ PatchFails
    \/ NoChanges

Spec == Init /\ [][Next]_vars

\* ------------------------------------------------------------ properties
TitleAttr == <<116>>
Outer == <<112>>
Inner == <<108>>

\* the statements of a graph about one predicate
About(g, p) == {t \in g : t[2] = p}

\* the values a cell lists: the maximal segments free of "|" (124) that are not
\* blank, stated position-wise
CellValueSet(cell) ==
    {SubSeq(cell, i, j) : <<i, j>> \in
        {ij \in (1..Len(cell) + 1) \X (0..Len(cell)) :
            /\ ij[1] <= ij[2] + 1
            /\ ij[1] = 1 \/ cell[ij[1] - 1] = 124
            /\ ij[2] = Len(cell) \/ cell[ij[2] + 1] = 124
            /\ \A k \in ij[1]..ij[2] : cell[k] # 124
            /\ \E k \in ij[1]..ij[2] : cell[k] \notin Whitespace}}

OldValueSet(it, attrs) == {v.s : v \in Range(it.props[attrs])}

\* C1: when the loop over the properties has handled the direct column
\* Title of a row that has a Title cell, the delete graph's statements
\* about the title are exactly (resource URI, title URI, term(v)) for v in
\* set(old) \ set(new), and the insert graph's exactly those for v in set(new) \ set(old), where new is
\* the cell split on "|" without its blank entries; the graphs being sets,
\* a value listed twice gives one statement.
C1_DirectDiff ==
    [][(pc = "indexed" /\ row.Title # NoneCell) =>
         LET old == OldValueSet(item, TitleAttr)
             new == CellValueSet(row.Title)
             stmt(v) == <<row.URI, "dcterms:title",
                          [term |-> "Literal", lex |-> v]>>
         IN  /\ About(delete_graph', "dcterms:title") =
                    {stmt(v) : v \in old \ new}
             /\ About(insert_graph', "dcterms:title") =
                    {stmt(v) : v \in new \ old}]_vars

\* a cell listing the same value twice, with a title deleted and that value
\* inserted once
C1_Witness ==
    /\ pc = "accumulated"
    /\ row.Title = <<98, 124, 98>>
    /\ Cardinality(About(insert_graph, "dcterms:title")) = 1
    /\ Cardinality(About(delete_graph, "dcterms:title")) = 1

\* C2: the cancellation pass leaves the two graphs disjoint: a statement
\* that was in both graphs is in neither afterwards, a statement that was in
\* only one of them is still in that one, and nothing is added.
C2_Cancellation ==
    [][(pc = "accumulated") =>
         /\ delete_graph' \cap insert_graph' = {}
         /\ \A t \in delete_graph \cap insert_graph :
                t \notin delete_graph' /\ t \notin insert_graph'
         /\ \A t \in delete_graph \ insert_graph : t \in delete_graph'
         /\ \A t \in insert_graph \ delete_graph : t \in insert_graph'
         /\ delete_graph' \subseteq delete_graph
         /\ insert_graph' \subseteq insert_graph]_vars

\* after the pass: an embedded object was overwritten (so a deletion and an
\* insertion about it were produced) and no statement about it is left
C2_Witness ==
    /\ pc = "diffed"
    /\ \E o \in DOMAIN item.emb[Outer] :
          /\ item.emb[Outer][o][Inner][1].py = "str"
          /\ \A t \in delete_graph \cup insert_graph : t[1] # o
    /\ insert_graph # {}

\* C3: a diffed row with two empty graphs submits no patch and counts as
\* unchanged only; any other diffed row submits exactly one patch, whose text
\* is the one DELETE/INSERT expression over both graphs, and counts as
\* updated only, once item.patch has returned.  No row is patched twice.
C3_RowDispatch ==
    /\ [](\A i, j \in 1..Len(patched) : patched[i] = patched[j] => i = j)
    /\ [][/\ (pc = "diffed" /\ delete_graph = {} /\ insert_graph = {}) =>
               /\ patched' = patched
               /\ unchanged_count' = unchanged_count + 1
               /\ updated_count' = updated_count
               /\ pc' = "loop"
          /\ (pc = "diffed" /\ ~(delete_graph = {} /\ insert_graph = {})) =>
               /\ patched' = Append(patched, row_number)
               /\ sparql_update' = <<"DELETE {", delete_graph, "} INSERT {",
                                     insert_graph, "} WHERE {}">>
               /\ unchanged_count' = unchanged_count
               /\ pc' = "patching"
          /\ (pc = "patching") =>
               /\ patched' = patched
               /\ unchanged_count' = unchanged_count
               /\ updated_count' = IF pc' = "loop" THEN updated_count + 1
                                                   ELSE updated_count]_vars

\* between rows: row 1 was unchanged and row 2 was patched once
C3_Witness ==
    /\ pc = "loop"
    /\ row_number = 2
    /\ patched = <<2>>
    /\ unchanged_count = 1
    /\ updated_count = 1

\* the number of rows the claim C4 expects to be processed
ExpectedRows == IF limit.given /\ limit.n < nrows THEN limit.n ELSE nrows

Terminated == pc \in {"done", "aborted"}

\* C4 (as claimed): when the run has ended (repository failures aside),
\* exactly min(N, M) rows have been processed, in file order (all M without
\* a limit), and no row after the N-th was fetched, patched or counted.
C4_Claim ==
    /\ \A i \in 1..Len(fetched) : fetched[i] = i /\ i <= ExpectedRows
    /\ \A i \in 1..Len(patched) : patched[i] <= ExpectedRows
    /\ row_count <= ExpectedRows
    /\ (Terminated /\ error # "RESTAPIException") =>
           Len(fetched) = ExpectedRows

\* C5 (as claimed): once a row has been diffed, diffing the same row again
\* against the same in-memory resource and index completes and yields an
\* empty delete graph and an empty insert graph.
C5_Claim ==
    pc \in {"diffed", "patching"} =>
        LET again == diff_row(item, index, row)
        IN  /\ again.err = None
            /\ again.del = {}
            /\ again.ins = {}

\* the index addresses one embedded object at two positions of the embedded
\* column for which the cell lists different values
Aliased(idx, new) ==
    /\ Outer \in DOMAIN idx
    /\ \E i, j \in 0..Len(new) - 1 :
          /\ idx[Outer][i] = idx[Outer][j]
          /\ new[i + 1] # new[j + 1]

\* C5 (amended): once a row has been diffed, diffing the same row again
\* against the same in-memory resource and index completes and yields no
\* statement about a direct property; it yields no statement at all unless
\* the index addresses one embedded object at two positions with different
\* new values: then the second diff yields statements about that object
\* again, the same ones in the delete graph as in the insert graph, so that
\* the cancellation pass leaves an empty delta.
C5_Idempotence ==
    pc \in {"diffed", "patching"} =>
        LET again == diff_row(item, index, row)
        IN  /\ again.err = None
            /\ About(again.del, "dcterms:title") = {}
            /\ About(again.ins, "dcterms:title") = {}
            /\ again.del = again.ins
            /\ (again.del = {}) <=> ~Aliased(index, new_values(row.Label))
            /\ \A t \in again.del :
                   \E i, j \in 0..Len(new_values(row.Label)) - 1 :
                      /\ index[Outer][i] = t[1]
                      /\ index[Outer][j] = t[1]
                      /\ new_values(row.Label)[i + 1] #
                             new_values(row.Label)[j + 1]

\* a first run that changed a title and overwrote an embedded label, after
\* which a second diff yields nothing
C5_Witness ==
    /\ pc = "diffed"
    /\ About(delete_graph, "dcterms:title") # {}
    /\ About(insert_graph, "dcterms:title") # {}
    /\ About(insert_graph, "rdfs:label") # {}
    /\ diff_row(item, index, row).del = {}
    /\ diff_row(item, index, row).ins = {}

\* the value set of the embedded column's property: the l of every object
\* embedded under p
EmbeddedValueSet(it) ==
    UNION {{v.s : v \in Range(it.emb[Outer][o][Inner])} :
              o \in DOMAIN it.emb[Outer]}

\* C6 (as claimed): after a row has been processed, the in-memory value set
\* of every mapped property, direct or embedded, equals the value set of the
\* row's cell.
C6_Claim ==
    pc \in {"diffed", "patching"} =>
        /\ OldValueSet(item, TitleAttr) = CellValueSet(row.Title)
        /\ EmbeddedValueSet(item) = CellValueSet(row.Label)

\* positions of the embedded column that address the object o
Addressing(idx, n, o) ==
    IF Outer \in DOMAIN idx
    THEN {i \in 0..n - 1 : i \in DOMAIN idx[Outer] /\ idx[Outer][i] = o}
    ELSE {}

\* C6 (amended): after the loop over the properties, the in-memory values of
\* the direct property are the cell's values as plain strings in cell
\* order; of the embedded property only the objects the index addresses at a
\* position below the number of new values are reconciled: such an object
\* holds the value of the last position addressing it, every other object
\* keeps the values it had.
C6_Reconciled ==
    [][(pc = "indexed" /\ pc' = "accumulated") =>
         LET new == new_values(row.Label)
         IN  /\ item'.props[TitleAttr] =
                    [i \in 1..Len(new_values(row.Title)) |->
                        [py |-> "str", s |-> new_values(row.Title)[i]]]
             /\ OldValueSet(item', TitleAttr) = CellValueSet(row.Title)
             /\ \A o \in DOMAIN item.emb[Outer] :
                    LET at == Addressing(index, Len(new), o)
                    IN  IF at = {}
                        THEN item'.emb[Outer][o] = item.emb[Outer][o]
                        ELSE item'.emb[Outer][o][Inner][1].s = new[Max(at) + 1]]_vars

\* both properties handled, one embedded object overwritten, the other one
\* still holding a value the cell does not list
C6_Witness ==
    /\ pc = "diffed"
    /\ row.INDEX = D_two
    /\ row.Label = <<97>>
    /\ item.emb[Outer][<<117, 47, 49>>][Inner] = <<[py |-> "str", s |-> <<97>>]>>
    /\ item.emb[Outer][<<117, 47, 50>>][Inner] = <<[py |-> "Literal", s |-> <<98>>]>>
    /\ item.props[TitleAttr] = <<[py |-> "str", s |-> <<98>>], [py |-> "str", s |-> <<97>>]>>

RowErrors == {"ValueError", "TypeError", "KeyError", "AttributeError",
              "IndexError"}

\* C7 (as claimed): a failure while processing a row (its index descriptor
\* is malformed or unresolvable) does not end the run while rows within the
\* limit remain to be processed.
C7_Claim ==
    ~(/\ pc = "aborted"
      /\ error \in RowErrors
      /\ row.INDEX \in FailingDescriptors \ {D_empty}
      /\ row_number < ExpectedRows)

\* C8 (as claimed): for an empty INDEX cell build_lookup_index returns an
\* empty index and raises nothing, so the row goes on to be diffed.
C8_Claim ==
    /\ (pc = "fetched" /\ row.INDEX = <<>>) =>
           build_lookup_index(item, row.INDEX) =
               [err |-> None, index |-> EmptyIndex]
    /\ (pc = "aborted" /\ error \in RowErrors) => row.INDEX # <<>>

\* the inner value the object at position i holds when the loop reaches i:
\* the new value of the last earlier position addressing the same object, or
\* the fetched value
CurrentAt(it, idx, new, i) ==
    LET o == idx[Outer][i]
        before == {j \in 0..i - 1 : idx[Outer][j] = o}
    IN  IF before = {} THEN it.emb[Outer][o][Inner][1].s
        ELSE new[Max(before) + 1]

\* C9: when the loop has handled the embedded column Label and p is a key
\* of the index, each position i whose new value differs from the object's
\* current inner value gives one deletion (object URI, label URI,
\* term(current)) and one insertion (object URI, label URI, term(new)) and
\* the object's inner value becomes the new value; a position whose value
\* is equal gives nothing and leaves the object as it is.  When p is not a
\* key, no statement about the label is produced and no embedded object
\* changes.
C9_EmbeddedDiff ==
    [][(pc = "indexed" /\ pc' = "accumulated") =>
         LET new == new_values(row.Label)
             term(v) == [term |-> "Literal", lex |-> v]
             changed == IF Outer \in DOMAIN index
                        THEN {i \in 0..Len(new) - 1 :
                                new[i + 1] # CurrentAt(item, index, new, i)}
                        ELSE {}
         IN  /\ About(delete_graph', "rdfs:label") =
                    {<<index[Outer][i], "rdfs:label",
                       term(CurrentAt(item, index, new, i))>> : i \in changed}
             /\ About(insert_graph', "rdfs:label") =
                    {<<index[Outer][i], "rdfs:label", term(new[i + 1])>> :
                        i \in changed}
             /\ \A o \in DOMAIN item.emb[Outer] :
                    LET at == {i \in changed : index[Outer][i] = o}
                    IN  item'.emb[Outer][o][Inner] =
                            IF at = {} THEN item.emb[Outer][o][Inner]
                            ELSE <<[py |-> "str", s |-> new[Max(at) + 1]]>>]_vars

\* the two-object scenario: both labels differ, two deletions and two
\* insertions, each about the embedded object's own URI
C9_Witness ==
    /\ pc = "accumulated"
    /\ row.INDEX = D_two
    /\ row.Label = <<98, 124, 97>>
    /\ About(delete_graph, "rdfs:label") =
           {<<<<117, 47, 49>>, "rdfs:label", [term |-> "Literal", lex |-> <<97>>]>>,
            <<<<117, 47, 50>>, "rdfs:label", [term |-> "Literal", lex |-> <<98>>]>>}
    /\ About(insert_graph, "rdfs:label") =
           {<<<<117, 47, 49>>, "rdfs:label", [term |-> "Literal", lex |-> <<98>>]>>,
            <<<<117, 47, 50>>, "rdfs:label", [term |-> "Literal", lex |-> <<97>>]>>}

InRow == {"fetched", "indexed", "accumulated", "diffed", "patching"}

\* C10 (as claimed): no counter changes for a row before the row has
\* resolved: while a row is in progress, and after a row has failed, the
\* three counters only count the rows before it; between rows
\* row_count = updated_count + unchanged_count.
C10_Claim ==
    /\ pc \in InRow \cup {"aborted"} =>
           /\ row_count = row_number - 1
           /\ updated_count + unchanged_count = row_number - 1
    /\ pc = "loop" => row_count = updated_count + unchanged_count

PatchFailed ==
    /\ pc = "aborted"
    /\ error = "RESTAPIException"
    /\ Len(patched) > 0
    /\ patched[Len(patched)] = row_number

\* C10 (amended): row_count is incremented when the row's diff and
\* cancellation pass are done, before any patch is submitted; updated_count
\* and unchanged_count change only when the row has resolved.  A row whose
\* fetch, indexing or diffing fails changes no counter, a row whose patch
\* submission fails has been added to row_count only, and between rows
\* row_count = updated_count + unchanged_count.
C10_CounterOrdering ==
    /\ pc \in {"fetched", "indexed", "accumulated"} =>
           /\ row_count = row_number - 1
           /\ updated_count + unchanged_count = row_number - 1
    /\ pc \in {"diffed", "patching"} =>
           /\ row_count = row_number
           /\ updated_count + unchanged_count = row_number - 1
    /\ pc = "aborted" =>
           /\ row_count = IF PatchFailed THEN row_number ELSE row_number - 1
           /\ updated_count + unchanged_count = row_number - 1
    /\ pc \in {"loop", "done"} => row_count = updated_count + unchanged_count
    /\ pc = "loop" => row_count = row_number

\* the second row's patch submission failed: the row is in row_count and in
\* neither of the other counters
C10_Witness ==
    /\ PatchFailed
    /\ row_number = 2
    /\ row_count = 2
    /\ updated_count + unchanged_count = 1

====
